---- MODULE Spec2Model ----
(***************************************************************************)
(* dnote: the search command of the CLI (pkg/cli/cmd/search/search.go),    *)
(* its archive command (pkg/cli/cmd/archive/archive.go) and the users      *)
(* controller of the server (pkg/server/controllers/users.go).             *)
(*                                                                         *)
(* A Go string is modelled as a sequence of bytes, a byte as a one- or     *)
(* two-character TLA+ string: "a" is the byte 0x61, "E2" the byte 0xE2.    *)
(* Offsets are Go's: 0-based, half open.                                   *)
(***************************************************************************)
EXTENDS Integers, Sequences, FiniteSets

(***************************************************************************)
(* Bounds of the model.                                                    *)
(***************************************************************************)
\* the number of tokens (phrase occurrences and other texts) a note body holds
MaxToks == 2
\* the number of loop iterations explored for one row (the loop of an empty
\* phrase never ends)
MaxIter == 3
\* the longest input of escapePhrase
MaxLen == 4
\* the number of sessions the server creates
MaxSessions == 2

(***************************************************************************)
(* Bytes and strings.                                                      *)
(***************************************************************************)
\* the bytes >= 0x80 of the model: the UTF-8 encodings of U+212A KELVIN SIGN
\* (E2 84 AA) and of U+FFFD (EF BF BD)
LeadBytes == {"E2", "EF"}
ContBytes == {"84", "AA", "BF", "BD"}
NonASCII == LeadBytes \cup ContBytes

Kelvin == <<"E2", "84", "AA">>
RuneError == <<"EF", "BF", "BD">>

Min(S) == CHOOSE x \in S : \A y \in S : x <= y

\* the concatenation of the strings ss[lo..hi], by halves
RECURSIVE ConcatRange(_, _, _)
ConcatRange(ss, lo, hi) ==
    IF lo > hi THEN <<>>
    ELSE IF lo = hi THEN ss[lo]
    ELSE LET mid == (lo + hi) \div 2
         IN  ConcatRange(ss, lo, mid) \o ConcatRange(ss, mid + 1, hi)

Concat(ss) == ConcatRange(ss, 1, Len(ss))

\* Go's s[a:b]; SliceOK is its bounds check (the run time panics without it)
SliceOK(str, a, b) == 0 <= a /\ a <= b /\ b <= Len(str)
Slice(str, a, b) == SubSeq(str, a + 1, b)

Repeat(ch, n) == [i \in 1..n |-> ch]

\* strings.Index: the offset of the first occurrence of key in str, or -1
Index(str, key) ==
    LET hits == {i \in 0..(Len(str) - Len(key)) :
                    /\ key = <<>> \/ str[i + 1] = key[1]
                    /\ SubSeq(str, i + 1, i + Len(key)) = key}
    IN  IF hits = {} THEN -1 ELSE Min(hits)

\* unicode.ToLower on the ASCII letters
LowerByte(ch) ==
    CASE ch = "A" -> "a"
      [] ch = "B" -> "b"
      [] OTHER -> ch

\* strings.Map(unicode.ToLower, s) at offset i (0-based) of str: the bytes the
\* byte at i contributes.  A lead byte followed by two continuation bytes is
\* one rune; KELVIN SIGN is the one rune of the model with a lower case, "k";
\* a byte that belongs to no rune is replaced by U+FFFD.
LowerAt(str, i) ==
    LET b == str[i + 1]
        starts(j) == /\ j >= 0
                     /\ j + 2 < Len(str)
                     /\ str[j + 1] \in LeadBytes
                     /\ str[j + 2] \in ContBytes
                     /\ str[j + 3] \in ContBytes
    IN  IF b \notin NonASCII THEN <<LowerByte(b)>>
        ELSE IF starts(i)
             THEN IF Slice(str, i, i + 3) = Kelvin THEN <<"k">>
                  ELSE Slice(str, i, i + 3)
        ELSE IF b \in ContBytes /\ (starts(i - 1) \/ starts(i - 2)) THEN <<>>
        ELSE RuneError

RECURSIVE LowerRange(_, _, _)
LowerRange(str, lo, hi) ==
    IF lo >= hi THEN <<>>
    ELSE IF hi = lo + 1 THEN LowerAt(str, lo)
    ELSE LET mid == (lo + hi) \div 2
         IN  LowerRange(str, lo, mid) \o LowerRange(str, mid, hi)

\* strings.ToLower: byte by byte on an ASCII string, strings.Map otherwise
ToLower(str) ==
    IF \A i \in 1..Len(str) : str[i] \notin NonASCII
    THEN [i \in 1..Len(str) |-> LowerByte(str[i])]
    ELSE LowerRange(str, 0, Len(str))

\* SQLite's LIKE folds the case of ASCII letters only
AsciiLower(str) == [i \in 1..Len(str) |-> LowerByte(str[i])]

HasPrefix(str, pre) == Len(pre) <= Len(str) /\ SubSeq(str, 1, Len(pre)) = pre

\* strings.Join(elems, sep)
RECURSIVE Join(_, _)
Join(elems, sep) ==
    IF elems = <<>> THEN <<>>
    ELSE IF Len(elems) = 1 THEN elems[1]
    ELSE elems[1] \o sep \o Join(Tail(elems), sep)

\* str LIKE pat, for a pattern whose one wildcard is "%" (any run of bytes)
RECURSIVE LikeFrom(_, _, _)
LikeFrom(pat, str, anchored) ==
    LET p == Index(pat, <<"%">>)
    IN  IF p = -1
        THEN IF anchored THEN pat = str
             ELSE Len(pat) <= Len(str)
                  /\ SubSeq(str, Len(str) - Len(pat) + 1, Len(str)) = pat
        ELSE LET lit == Slice(pat, 0, p)
                 rest == Slice(pat, p + 1, Len(pat))
                 at == IF anchored
                       THEN IF HasPrefix(str, lit) THEN 0 ELSE -1
                       ELSE Index(str, lit)
             IN  /\ at > -1
                 /\ LikeFrom(rest, Slice(str, at + Len(lit), Len(str)), FALSE)

Like(str, pat) == LikeFrom(AsciiLower(pat), AsciiLower(str), TRUE)

(***************************************************************************)
(* The markers of a snippet.                                               *)
(***************************************************************************)
HLBegin == <<"<", "d", "n", "o", "t", "e", "h", "l", ">">>
HLEnd == <<"<", "/", "d", "n", "o", "t", "e", "h", "l", ">">>
Dots == <<".", ".", ".">>
\* "<dnotehl>...</dnotehl>"
Ellipsis == HLBegin \o Dots \o HLEnd

\* the context size, in bytes, on each side of an occurrence
c == 60

(***************************************************************************)
(* search.go: the pure functions.                                          *)
(***************************************************************************)
\* indexAt(s, key, n): the offset of the first occurrence of key at or after
\* n; s[n:] needs n <= len(s)
indexAt(str, key, n) ==
    LET i == Index(Slice(str, n, Len(str)), key)
    IN  IF i > -1 THEN i + n ELSE i

\* s = idx - c: where the context before the occurrence at i starts
WindowStart(i) == i - c

\* Resume with the end marker's length forgotten: the search resumes at the
\* end of the occurrence, before its end marker
ResumeAtSpanEnd(i, L) == i + L

\* where the search resumes after the occurrence at i: behind its end marker
Resume(i, L) == i + L + 10

\* WindowEnd with the context forgotten: the context after the occurrence ends
\* behind its end marker
WindowEndNoContext(i, L) == i + L + 10

\* e = idx + len(phrase_lwr) + 10 + c: where the context after it ends
WindowEnd(i, L) == i + L + 10 + c

\* Truncated without the test e != 0: the body is cut at e also when the loop
\* never ran
TruncatedNoGuard(end, str) == end < Len(str)

\* whether the text behind e is cut off and replaced by an ellipsis
Truncated(end, str) == (end # 0) /\ (end < Len(str))

\* Rewrite with body[e:idx] in place of body[s:idx]: the text between end and
\* start stays behind the ellipsis
RewriteKeepsOmitted(str, end, start, i, L) ==
    LET marked == HLBegin \o Slice(str, i, i + L) \o HLEnd
                     \o Slice(str, i + L, Len(str))
    IN  IF start > end
        THEN Slice(str, 0, end) \o Ellipsis \o Slice(str, end, i) \o marked
        ELSE Slice(str, 0, i) \o marked

\* Rewrite without the ellipsis at the start of the body (end = 0)
RewriteNoLeadingEllipsis(str, end, start, i, L) ==
    LET marked == HLBegin \o Slice(str, i, i + L) \o HLEnd
                     \o Slice(str, i + L, Len(str))
    IN  IF start > end
        THEN Slice(str, 0, end) \o (IF end = 0 THEN <<>> ELSE Ellipsis)
                \o Slice(str, start, i) \o marked
        ELSE Slice(str, 0, i) \o marked

\* the body rewritten around the occurrence at i: behind an ellipsis and the
\* context from start on if that lies behind end (far), in place otherwise
Rewrite(str, end, start, i, L) ==
    LET marked == HLBegin \o Slice(str, i, i + L) \o HLEnd
                     \o Slice(str, i + L, Len(str))
    IN  IF start > end
        THEN Slice(str, 0, end) \o Ellipsis \o Slice(str, start, i) \o marked
        ELSE Slice(str, 0, i) \o marked

\* where the occurrence at i stands in the rewritten body
Shifted(end, start, i) ==
    IF start > end THEN i - (start - end) + 22 + 9 ELSE i + 9

\* One pass of the loop body on (body, e, idx).  The result is the new body, e
\* and idx, and whether the pass panicked on a slice out of range.
LoopBody(str, end, i, key) ==
    LET L == Len(key)
        start == WindowStart(i)
        sliceOK == /\ SliceOK(str, i, i + L)
                   /\ start > end => SliceOK(str, 0, end) /\ SliceOK(str, start, i)
        str1 == Rewrite(str, end, start, i, L)
        i1 == Shifted(end, start, i)
        low == ToLower(str1)
    IN  IF ~sliceOK
        THEN [body |-> str, s |-> start, e |-> end, idx |-> i, panic |-> TRUE]
        ELSE IF ~SliceOK(low, Resume(i1, L), Len(low))
        THEN [body |-> str1, s |-> start, e |-> WindowEnd(i1, L), idx |-> i1,
              panic |-> TRUE]
        ELSE [body |-> str1, s |-> start, e |-> WindowEnd(i1, L),
              idx |-> indexAt(low, key, Resume(i1, L)), panic |-> FALSE]

\* newLineReg.ReplaceAllString(s, " "): every \n and \r\n becomes one space
StripNewLines(str) ==
    Concat([i \in 1..Len(str) |->
              IF str[i] = "\n" THEN <<" ">>
              ELSE IF str[i] = "\r" /\ i < Len(str) /\ str[i + 1] = "\n" THEN <<>>
              ELSE <<str[i]>>])

\* tokenize(s): one token per marker and per other byte, then an end-of-line
\* token
TokChar(b) == [Kind |-> "tokenKindChar", Value |-> b]
TokBegin == [Kind |-> "tokenKindHLBegin", Value |-> ""]
TokEnd == [Kind |-> "tokenKindHLEnd", Value |-> ""]
TokEOL == [Kind |-> "tokenKindEOL", Value |-> ""]

\* whether key stands at offset i (0-based) of str
At(str, i, key) ==
    /\ i >= 0
    /\ i + Len(key) <= Len(str)
    /\ key = <<>> \/ str[i + 1] = key[1]
    /\ SubSeq(str, i + 1, i + Len(key)) = key

tokenize(str) ==
    LET at(i) == IF At(str, i, HLBegin) THEN <<TokBegin>>
                 ELSE IF At(str, i, HLEnd) THEN <<TokEnd>>
                 ELSE <<TokChar(str[i + 1])>>
        \* a marker holds one "<", its first byte: no marker starts inside another
        inMarker(i) == \E j \in 1..9 :
                          \/ j <= 8 /\ At(str, i - j, HLBegin)
                          \/ At(str, i - j, HLEnd)
    IN  Concat([i \in 1..Len(str) |->
                   IF inMarker(i - 1) THEN <<>> ELSE at(i - 1)])
            \o <<TokEOL>>

\* log.ColorYellow.Sprintf("%s", text): the text between the escape sequences
\* of the colour
ColorYellow(text) == <<"ESC[33m">> \o text \o <<"ESC[0m">>

\* fmt.Sprintf(format, args...) of a format whose verbs are all %s and of as
\* many arguments as verbs
RECURSIVE Sprintf(_, _)
Sprintf(format, as) ==
    IF format = <<>> THEN <<>>
    ELSE IF HasPrefix(format, <<"%", "s">>)
    THEN (IF as = <<>> THEN <<"%!s(MISSING)">> ELSE Head(as))
            \o Sprintf(Slice(format, 2, Len(format)),
                       IF as = <<>> THEN as ELSE Tail(as))
    ELSE <<Head(format)>> \o Sprintf(Tail(format), as)

\* the loop of formatFTSSnippet over the tokens from the k-th on; a run of
\* character tokens is written to buf in one piece
RECURSIVE FormatToks(_, _, _)
FormatToks(toks, k, st) ==
    IF k > Len(toks) THEN st
    ELSE LET stops == {j \in k..Len(toks) : toks[j].Kind # "tokenKindChar"}
             n == IF stops = {} THEN Len(toks) + 1 ELSE Min(stops)
             buf == st.buf \o [j \in 1..(n - k) |-> toks[k + j - 1].Value]
         IN  IF n > Len(toks) THEN [st EXCEPT !.buf = buf]
             ELSE FormatToks(toks, n + 1,
                    IF toks[n].Kind \in {"tokenKindHLBegin", "tokenKindEOL"}
                    THEN [format |-> st.format \o <<"%", "s">>,
                          args |-> Append(st.args, buf), buf |-> <<>>]
                    ELSE [format |-> st.format \o <<"%", "s">>,
                          args |-> Append(st.args, ColorYellow(buf)),
                          buf |-> <<>>])

\* formatFTSSnippet without its first statement: the new lines stay
formatFTSSnippetRaw(str) ==
    LET toks == tokenize(str)
        st == FormatToks(toks, 1, [format |-> <<>>, args |-> <<>>, buf |-> <<>>])
    IN  Sprintf(st.format, st.args)

\* formatFTSSnippet without the end-of-line token: the text behind the last
\* marker is not flushed
formatFTSSnippetNoFlush(str) ==
    LET toks == tokenize(StripNewLines(str))
        st == FormatToks(SubSeq(toks, 1, Len(toks) - 1), 1,
                         [format |-> <<>>, args |-> <<>>, buf |-> <<>>])
    IN  Sprintf(st.format, st.args)

formatFTSSnippet(str) ==
    LET toks == tokenize(StripNewLines(str))
        st == FormatToks(toks, 1, [format |-> <<>>, args |-> <<>>, buf |-> <<>>])
    IN  Sprintf(st.format, st.args)

\* the loop of newRun from (body, e, idx) on, of n passes at most, and the
\* truncation behind it: the marked-up text of a row
RECURSIVE RunLoop(_, _, _, _, _)
RunLoop(str, end, i, key, n) ==
    IF i = -1 \/ n = 0
    THEN IF Truncated(end, str) THEN Slice(str, 0, end) \o Ellipsis ELSE str
    ELSE LET r == LoopBody(str, end, i, key)
         IN  IF r.panic THEN r.body
             ELSE RunLoop(r.body, r.e, r.idx, key, n - 1)

\* what newRun makes of a row's body: the loop, then formatFTSSnippet
Snippet(str, key) ==
    formatFTSSnippet(RunLoop(str, 0, Index(ToLower(str), key), key, MaxIter))

(***************************************************************************)
(* The search command: rendering of newRun for a database of one note.     *)
(***************************************************************************)
VARIABLES
    args,       \* the command's arguments: the search terms
    bookName,   \* the --book flag
    all,        \* the --all flag
    note,       \* the note of the database: its book's label and archive
                \* flag, and its body
    rows,       \* the rows doQuery returned that are still to be read
    info,       \* the row at hand
    body,       \* the body of the row at hand, rewritten by the loop
    phrase_lwr, \* strings.ToLower(args[0])
    s, e, idx,  \* the loop's offsets into body
    infos,      \* the rows formatted so far
    printed,    \* the lines written to the terminal
    pc,         \* where newRun stands
    iter,       \* the passes of the loop made on the row at hand
    segs,       \* history: what the loop made of the row so far, as slices of
                \* the row's body, highlighted or not, and ellipses
    esc_in,     \* escapePhrase: its argument
    esc_out,    \* escapePhrase: its result, once it returned
    a_args,     \* archive: the command's arguments
    reverseFlag, \* archive: the --reverse flag
    books,      \* archive: the books of the database, label to archive flag
    books0,     \* archive, history: the books when the command started
    tx,         \* archive: the transaction: "none", "open", "committed",
                \* "rolledback", or "closed" by a Commit that failed
    staged,     \* archive: the updates made in the open transaction
    bookUUID,   \* archive: the book that was found
    a_err,      \* archive: the error newRun returned, "nil" if none
    a_pc,       \* archive: where the command stands
    sessions,   \* server: the keys of the sessions of the database
    nextKey,    \* server: the key of the session SignIn creates next
    cookie,     \* server: the session cookie of the client, 0 if none
    last        \* server: the last request, what its handler called and what
                \* it answered

cmdVars == <<args, bookName, all, note, rows, info, body, phrase_lwr, s, e, idx,
             infos, printed, pc, iter, segs>>
escVars == <<esc_in, esc_out>>
archVars == <<a_args, reverseFlag, books, books0, tx, staged, bookUUID, a_err,
             a_pc>>
srvVars == <<sessions, nextKey, cookie, last>>
notCmdVars == <<escVars, archVars, srvVars>>
vars == <<cmdVars, escVars, archVars, srvVars>>

\* strings.Fields: the maximal runs of bytes that are not white space
IsSpace(b) == b \in {" ", "\t", "\n", "\r"}

RECURSIVE Fields(_)
Fields(str) ==
    IF str = <<>> THEN <<>>
    ELSE IF IsSpace(Head(str)) THEN Fields(Tail(str))
    ELSE LET stops == {i \in 1..Len(str) : IsSpace(str[i])}
             n == IF stops = {} THEN Len(str) ELSE Min(stops) - 1
         IN  <<Slice(str, 0, n)>> \o Fields(Slice(str, n, Len(str)))

\* whether a space follows the term of index i (0-based): idx != len(term)-1
SpaceAfter(i, term, terms) == i # Len(term) - 1

\* escapePhrase on a split that yields one empty term for an input of none
\* (as strings.Split does where strings.Fields does not)
escapePhraseSplit(str) ==
    LET terms == IF Fields(str) = <<>> THEN <<<<>>>> ELSE Fields(str)
    IN  Concat([k \in 1..Len(terms) |->
                  <<"\"">> \o terms[k] \o <<"\"">>
                     \o (IF SpaceAfter(k - 1, terms[k], terms) THEN <<" ">>
                         ELSE <<>>)])

\* escapePhrase(s): its string result; a strings.Builder returns no error
escapePhrase(str) ==
    LET terms == Fields(str)
    IN  Concat([k \in 1..Len(terms) |->
                  <<"\"">> \o terms[k] \o <<"\"">>
                     \o (IF SpaceAfter(k - 1, terms[k], terms) THEN <<" ">>
                         ELSE <<>>)])

\* preRun: whether the arguments are accepted
preRun(as) == Len(as) # 0

\* the rows the statement of doQuery selects: those of db whose body is LIKE
\* the query, and whose book is LIKE bookName if there is one, is not archived
\* if there is none and all is not set
Selects(n, query, book, every) ==
    /\ Like(n.body, query)
    /\ IF book # <<>> THEN Like(n.label, book)
       ELSE IF ~every THEN n.archive = FALSE
       ELSE TRUE

doQuery(db, query, book, every) ==
    SelectSeq(db, LAMBDA n : Selects(n, query, book, every))

(***************************************************************************)
(* The inputs.                                                             *)
(***************************************************************************)
Fill(n) == Repeat("x", n)

\* an occurrence of the phrase "Ab", in another case
Occ == <<"a", "B">>
\* the other texts of a body: a byte of the markers, a rune whose lower case
\* is shorter, a marker, new lines, an occurrence of the phrase "a%"
Specials == {<<">">>, Kelvin, HLEnd, <<"\n">>, <<"\r", "\n">>, <<"A", "%">>}

LeadLens == {0, c, c + 1}
GapLens == {0, 2 * c, 2 * c + 1}
TailLens == {0, c, c + 1}

\* the bodies of k tokens, one of them at most not an occurrence, with filler
\* before, between and behind
TokSeqs(k) ==
    {ts \in [1..k -> {Occ} \cup Specials] :
        Cardinality({i \in 1..k : ts[i] # Occ}) <= 1}
LenSeqs(k) ==
    {ls \in [0..k -> LeadLens \cup GapLens \cup TailLens] :
        /\ ls[0] \in LeadLens
        /\ ls[k] \in TailLens
        /\ \A i \in 1..(k - 1) : ls[i] \in GapLens}
BodyOf(k, ts, ls) ==
    Fill(ls[0]) \o Concat([i \in 1..k |-> ts[i] \o Fill(ls[i])])
Bodies ==
    UNION {{BodyOf(k, ts, ls) : ts \in TokSeqs(k), ls \in LenSeqs(k)} :
             k \in 0..MaxToks}

\* no argument; one phrase: with an occurrence, empty, a byte of the markers,
\* with a wildcard of LIKE; two terms
ArgLists ==
    {<<>>, <<<<"A", "b">>>>, <<<<>>>>, <<<<">">>>>, <<<<"a", "%">>>>,
     <<<<"A", "b">>, <<"x">>>>}
\* the bodies the two terms are tried on: those of one token at most
ShortBodies ==
    UNION {{BodyOf(k, ts, ls) : ts \in TokSeqs(k), ls \in LenSeqs(k)} :
             k \in 0..1}

BookNames == {<<>>, <<"j">>, <<"k">>}

Note(b, archived) ==
    [rowid |-> 1, label |-> <<"j">>, archive |-> archived, body |-> b]

\* the bodies the flags are tried on
FlagBodies == {Occ, Fill(c + 1) \o Occ}

NoInfo == [RowID |-> 0, BookLabel |-> <<>>, Body |-> <<>>, Archive |-> FALSE]

IdleCmd ==
    /\ rows = <<>>
    /\ info = NoInfo
    /\ body = <<>>
    /\ phrase_lwr = <<>>
    /\ s = 0
    /\ e = 0
    /\ idx = -1
    /\ infos = <<>>
    /\ printed = <<>>
    /\ iter = 0
    /\ segs = <<>>

NotReturned == [returned |-> FALSE, str |-> <<>>, err |-> "nil"]

IdleEsc == esc_in = <<>> /\ esc_out = NotReturned

\* the archive command is not run
IdleArch ==
    /\ a_args = <<>>
    /\ reverseFlag = FALSE
    /\ books = [l \in {} |-> FALSE]
    /\ books0 = [l \in {} |-> FALSE]
    /\ tx = "none"
    /\ staged = <<>>
    /\ bookUUID = ""
    /\ a_err = "nil"
    /\ a_pc = "idle"

\* no request was served
NoRequest ==
    [handler |-> "none", parsed |-> FALSE, email |-> "", password |-> "",
     auth |-> "none", signIn |-> "none", created |-> 0, err |-> "nil",
     cookieSet |-> 0, issued |-> 0, cred |-> 0, deleted |-> 0,
     cookieUnset |-> FALSE]

\* the server is not run
IdleSrv ==
    /\ sessions = {}
    /\ nextKey = 1
    /\ cookie = 0
    /\ last = NoRequest

Init ==
    /\ \/ /\ note \in {Note(b, FALSE) : b \in Bodies}
          /\ args \in ArgLists
          /\ Len(args) > 1 => note.body \in ShortBodies
          /\ bookName = <<>>
          /\ all = FALSE
       \/ /\ note \in {Note(b, a) : b \in FlagBodies, a \in BOOLEAN}
          /\ args = <<<<"A", "b">>>>
          /\ bookName \in BookNames
          /\ all \in BOOLEAN
    /\ pc = "preRun"
    /\ IdleCmd
    /\ IdleEsc
    /\ IdleArch
    /\ IdleSrv

(***************************************************************************)
(* The steps of newRun.                                                    *)
(***************************************************************************)
\* cobra runs PreRunE, and RunE if it returned no error
PreRun ==
    /\ pc = "preRun"
    /\ pc' = IF preRun(args) THEN "doQuery" ELSE "error"
    /\ UNCHANGED <<args, bookName, all, note, rows, info, body, phrase_lwr, s,
                   e, idx, infos, printed, iter, segs, notCmdVars>>

\* phrase := "%" + strings.Join(args, "%") + "%"; rows, err := doQuery(...)
Query ==
    /\ pc = "doQuery"
    /\ rows' = doQuery(<<note>>, <<"%">> \o Join(args, <<"%">>) \o <<"%">>,
                       bookName, all)
    /\ pc' = "rows"
    /\ UNCHANGED <<args, bookName, all, note, info, body, phrase_lwr, s, e,
                   idx, infos, printed, iter, segs, notCmdVars>>

\* rows.Next() and rows.Scan, then the loop's initialisation
ScanRow ==
    /\ pc = "rows"
    /\ rows # <<>>
    /\ LET row == Head(rows)
       IN  /\ info' = [RowID |-> row.rowid, BookLabel |-> row.label,
                       Body |-> <<>>, Archive |-> row.archive]
           /\ body' = row.body
           /\ phrase_lwr' = ToLower(args[1])
           /\ idx' = Index(ToLower(row.body), ToLower(args[1]))
    /\ rows' = Tail(rows)
    /\ s' = 0
    /\ e' = 0
    /\ iter' = 0
    /\ segs' = <<>>
    /\ pc' = "loop"
    /\ UNCHANGED <<args, bookName, all, note, infos, printed, notCmdVars>>

\* the offset in the row's body of the offset i of body, for an offset behind
\* what the loop rewrote: the loop leaves the rest of the body as it was
RowOff(i) == i - (Len(body) - Len(note.body))
\* where in the row's body the text the loop has not yet emitted starts
Emitted == IF segs = <<>> THEN 0 ELSE segs[Len(segs)].hi

Text(lo, hi) == [kind |-> "text", lo |-> lo, hi |-> hi]
Span(lo, hi) == [kind |-> "hl", lo |-> lo, hi |-> hi]
Omit(lo, hi) == [kind |-> "ellipsis", lo |-> lo, hi |-> hi]

\* one pass of the loop: for idx > -1 { ... }
Highlight ==
    /\ pc = "loop"
    /\ idx > -1
    /\ iter < MaxIter
    /\ LET r == LoopBody(body, e, idx, phrase_lwr)
           L == Len(phrase_lwr)
       IN  /\ body' = r.body
           /\ s' = r.s
           /\ e' = r.e
           /\ idx' = r.idx
           /\ pc' = IF r.panic THEN "panic" ELSE "loop"
           /\ segs' = IF r.body = body THEN segs
                      ELSE IF r.s > e
                      THEN segs \o <<Text(Emitted, RowOff(e)),
                                     Omit(RowOff(e), RowOff(r.s)),
                                     Text(RowOff(r.s), RowOff(idx)),
                                     Span(RowOff(idx), RowOff(idx + L))>>
                      ELSE segs \o <<Text(Emitted, RowOff(idx)),
                                     Span(RowOff(idx), RowOff(idx + L))>>
    /\ iter' = iter + 1
    /\ UNCHANGED <<args, bookName, all, note, rows, info, phrase_lwr, infos,
                   printed, notCmdVars>>

\* if (e != 0) && (e < len(body)) { body = body[:e] + "<dnotehl>...</dnotehl>" }
Truncate ==
    /\ pc = "loop"
    /\ idx = -1
    /\ IF Truncated(e, body)
       THEN /\ body' = Slice(body, 0, e) \o Ellipsis
            /\ segs' = segs \o <<Text(Emitted, RowOff(e)),
                                 Omit(RowOff(e), Len(note.body))>>
       ELSE /\ body' = body
            /\ segs' = segs \o <<Text(Emitted, Len(note.body))>>
    /\ pc' = "format"
    /\ UNCHANGED <<args, bookName, all, note, rows, info, phrase_lwr, s, e,
                   idx, infos, printed, iter, notCmdVars>>

\* body, err := formatFTSSnippet(body); infos = append(infos, info)
Format ==
    /\ pc = "format"
    /\ infos' = Append(infos, [info EXCEPT !.Body = formatFTSSnippet(body)])
    /\ pc' = "rows"
    /\ UNCHANGED <<args, bookName, all, note, rows, info, body, phrase_lwr, s,
                   e, idx, printed, iter, segs, notCmdVars>>

\* the lines of the result: the book's label, grey if archived, the row's id
\* and the snippet
PrintRows ==
    /\ pc = "rows"
    /\ rows = <<>>
    /\ printed' = [k \in 1..Len(infos) |->
                     [label |-> infos[k].BookLabel,
                      colour |-> IF infos[k].Archive THEN "ColorGray"
                                 ELSE "ColorYellow",
                      rowid |-> infos[k].RowID,
                      body |-> infos[k].Body]]
    /\ pc' = "done"
    /\ UNCHANGED <<args, bookName, all, note, rows, info, body, phrase_lwr, s,
                   e, idx, infos, iter, segs, notCmdVars>>

Next ==
    \/ PreRun
    \/ Query
    \/ ScanRow
    \/ Highlight
    \/ Truncate
    \/ Format
    \/ PrintRows

Spec == Init /\ [][Next]_vars

(***************************************************************************)
(* escapePhrase on its own: no command of this package calls it.           *)
(***************************************************************************)
EscBytes == {"a", "b", " ", "\t"}
EscInputs == UNION {[1..n -> EscBytes] : n \in 0..MaxLen}

InitEscape ==
    /\ esc_in \in EscInputs
    /\ esc_out = NotReturned
    /\ args = <<>>
    /\ bookName = <<>>
    /\ all = FALSE
    /\ note = Note(<<>>, FALSE)
    /\ pc = "idle"
    /\ IdleCmd
    /\ IdleArch
    /\ IdleSrv

Escape ==
    /\ ~esc_out.returned
    /\ esc_out' = [returned |-> TRUE, str |-> escapePhrase(esc_in),
                   err |-> "nil"]
    /\ UNCHANGED <<esc_in, cmdVars, archVars, srvVars>>

NextEscape == Escape

SpecEscape == InitEscape /\ [][NextEscape]_vars

(***************************************************************************)
(* The archive command (pkg/cli/cmd/archive/archive.go).                   *)
(***************************************************************************)
Labels == {"j", "k"}
ArchArgLists == {<<>>, <<"j">>, <<"k">>, <<"j", "k">>}
ArchDBs == UNION {[D -> BOOLEAN] : D \in SUBSET Labels}

InitArchive ==
    /\ a_args \in ArchArgLists
    /\ reverseFlag \in BOOLEAN
    /\ books \in ArchDBs
    /\ books0 = books
    /\ tx = "none"
    /\ staged = <<>>
    /\ bookUUID = ""
    /\ a_err = "nil"
    /\ a_pc = "preRun"
    /\ args = <<>>
    /\ bookName = <<>>
    /\ all = FALSE
    /\ note = Note(<<>>, FALSE)
    /\ pc = "idle"
    /\ IdleCmd
    /\ IdleEsc
    /\ IdleSrv

\* newRun returns err
ArchReturn(err) == a_err' = err /\ a_pc' = "returned"

\* preRun: one argument exactly
ArchPreRun ==
    /\ a_pc = "preRun"
    /\ IF Len(a_args) # 1
       THEN ArchReturn("Incorrect number of argument")
       ELSE a_pc' = "validate" /\ a_err' = a_err
    /\ UNCHANGED <<a_args, reverseFlag, books, books0, tx, staged, bookUUID,
                   cmdVars, escVars, srvVars>>

\* validate.BookName(bookName): it accepts the name or not
ArchValidate ==
    /\ a_pc = "validate"
    /\ \E ok \in BOOLEAN :
          IF ok THEN a_pc' = "begin" /\ a_err' = a_err
          ELSE ArchReturn("invalid book name")
    /\ UNCHANGED <<a_args, reverseFlag, books, books0, tx, staged, bookUUID,
                   cmdVars, escVars, srvVars>>

\* tx, err := ctx.DB.Begin()
ArchBegin ==
    /\ a_pc = "begin"
    /\ \E ok \in BOOLEAN :
          IF ok THEN tx' = "open" /\ a_pc' = "find" /\ a_err' = a_err
          ELSE tx' = tx /\ ArchReturn("beginning a transaction")
    /\ UNCHANGED <<a_args, reverseFlag, books, books0, staged, bookUUID,
                   cmdVars, escVars, srvVars>>

\* tx.QueryRow("SELECT uuid FROM books WHERE label = ?", bookName).Scan: an
\* error if there is no such book or the query fails; newRun then returns
\* as it is
ArchFind ==
    /\ a_pc = "find"
    /\ \E ok \in BOOLEAN :
          IF ok /\ a_args[1] \in DOMAIN books
          THEN bookUUID' = a_args[1] /\ a_pc' = "update" /\ a_err' = a_err
          ELSE bookUUID' = bookUUID /\ ArchReturn("finding the book")
    /\ UNCHANGED <<a_args, reverseFlag, books, books0, tx, staged, cmdVars,
                   escVars, srvVars>>

\* tx.Exec("UPDATE books SET archive = ? WHERE uuid = ?", !reverseFlag,
\* bookUUID); tx.Rollback() on an error
ArchUpdate ==
    /\ a_pc = "update"
    /\ \E ok \in BOOLEAN :
          IF ok
          THEN /\ staged' = Append(staged, [uuid |-> bookUUID,
                                            archive |-> ~reverseFlag])
               /\ tx' = tx
               /\ a_pc' = "commit"
               /\ a_err' = a_err
          ELSE /\ staged' = <<>>
               /\ tx' = "rolledback"
               /\ ArchReturn("archiving the book")
    /\ UNCHANGED <<a_args, reverseFlag, books, books0, bookUUID, cmdVars,
                   escVars, srvVars>>

\* the books with the updates of the transaction applied
Applied(bs, ups) ==
    [l \in DOMAIN bs |->
        IF \E k \in 1..Len(ups) : ups[k].uuid = l
        THEN ups[CHOOSE k \in 1..Len(ups) :
                    ups[k].uuid = l
                    /\ \A j \in (k + 1)..Len(ups) : ups[j].uuid # l].archive
        ELSE bs[l]]

\* err = tx.Commit(); on an error tx.Rollback(), which finds the transaction
\* closed by Commit; the success message and return nil otherwise
ArchCommit ==
    /\ a_pc = "commit"
    /\ \E ok \in BOOLEAN :
          IF ok
          THEN /\ books' = Applied(books, staged)
               /\ tx' = "committed"
               /\ ArchReturn("nil")
          ELSE /\ books' = books
               /\ tx' = "closed"
               /\ ArchReturn("comitting transaction")
    /\ staged' = <<>>
    /\ UNCHANGED <<a_args, reverseFlag, books0, bookUUID, cmdVars, escVars,
                   srvVars>>

NextArchive ==
    \/ ArchPreRun
    \/ ArchValidate
    \/ ArchBegin
    \/ ArchFind
    \/ ArchUpdate
    \/ ArchCommit

SpecArchive == InitArchive /\ [][NextArchive]_vars

(***************************************************************************)
(* The users controller of the server (pkg/server/controllers/users.go).   *)
(* A session is its key, a positive number; 0 stands for no session, no    *)
(* cookie and the empty credential.                                        *)
(***************************************************************************)
Emails == {"", "u"}
Passwords == {"", "p"}
\* what app.Authenticate returns: a user, or an error
AuthResults == {"ok", "ErrNotFound", "ErrLoginInvalid"}
\* what app.SignIn and app.DeleteSession return: "ok", or an error
CallResults == {"ok", "err"}

\* login without the test of the password
loginNoPasswordTest(form, auth, signIn, key) ==
    IF form.Email = ""
    THEN [session |-> 0, err |-> "ErrEmailRequired", auth |-> "none",
          signIn |-> "none"]
    ELSE IF auth # "ok"
    THEN [session |-> 0,
          err |-> IF auth = "ErrNotFound" THEN "ErrLoginInvalid" ELSE auth,
          auth |-> auth, signIn |-> "none"]
    ELSE IF signIn # "ok"
    THEN [session |-> 0, err |-> signIn, auth |-> auth, signIn |-> signIn]
    ELSE [session |-> key, err |-> "nil", auth |-> auth, signIn |-> signIn]

\* Users.login(form), where app.Authenticate would return auth and app.SignIn
\* would return signIn, creating the session key: the session and the error
\* it returns, and what the two calls it made returned ("none": not called)
login(form, auth, signIn, key) ==
    IF form.Email = ""
    THEN [session |-> 0, err |-> "ErrEmailRequired", auth |-> "none",
          signIn |-> "none"]
    ELSE IF form.Password = ""
    THEN [session |-> 0, err |-> "ErrPasswordRequired", auth |-> "none",
          signIn |-> "none"]
    ELSE IF auth # "ok"
    THEN [session |-> 0,
          err |-> IF auth = "ErrNotFound" THEN "ErrLoginInvalid" ELSE auth,
          auth |-> auth, signIn |-> "none"]
    ELSE IF signIn # "ok"
    THEN [session |-> 0, err |-> signIn, auth |-> auth, signIn |-> signIn]
    ELSE [session |-> key, err |-> "nil", auth |-> auth, signIn |-> signIn]

\* Users.logout(r), where GetCredential returns the key cred or an error and
\* app.DeleteSession would return del: ok, the error, and the session whose
\* deletion was asked for
logout(credOK, cred, del) ==
    IF ~credOK
    THEN [ok |-> FALSE, err |-> "getting credentials", deleted |-> 0]
    ELSE IF cred = 0
    THEN [ok |-> FALSE, err |-> "nil", deleted |-> 0]
    ELSE IF del # "ok"
    THEN [ok |-> FALSE, err |-> "deleting session", deleted |-> cred]
    ELSE [ok |-> TRUE, err |-> "nil", deleted |-> cred]

InitServer ==
    /\ IdleSrv
    /\ args = <<>>
    /\ bookName = <<>>
    /\ all = FALSE
    /\ note = Note(<<>>, FALSE)
    /\ pc = "idle"
    /\ IdleCmd
    /\ IdleEsc
    /\ IdleArch

\* a login request served by Login (json = FALSE: setSessionCookie and a
\* redirect) or V3Login (json = TRUE: respondWithSession)
LoginRequest(handler, json) ==
    /\ nextKey <= MaxSessions
    /\ \E parseOK \in BOOLEAN, email \in Emails, password \in Passwords,
          auth \in AuthResults, signIn \in CallResults :
          LET r == login([Email |-> email, Password |-> password], auth, signIn,
                         nextKey)
              req == [NoRequest EXCEPT !.handler = handler, !.parsed = parseOK]
          IN  IF ~parseOK
              THEN /\ last' = [req EXCEPT !.err = "parsing payload"]
                   /\ UNCHANGED <<sessions, nextKey, cookie>>
              ELSE /\ last' = [req EXCEPT
                                  !.email = email,
                                  !.password = password,
                                  !.auth = r.auth,
                                  !.signIn = r.signIn,
                                  !.created = r.session,
                                  !.err = r.err,
                                  !.cookieSet = IF json THEN 0 ELSE r.session,
                                  !.issued = IF json THEN r.session ELSE 0]
                   /\ sessions' = IF r.signIn = "ok"
                                  THEN sessions \cup {nextKey} ELSE sessions
                   /\ nextKey' = IF r.signIn = "ok" THEN nextKey + 1
                                 ELSE nextKey
                   /\ cookie' = IF r.err = "nil" /\ ~json THEN r.session
                                ELSE cookie
    /\ UNCHANGED <<cmdVars, escVars, archVars>>

\* a logout request served by Logout or V3Logout: unsetSessionCookie if
\* logout returned ok, then a redirect or the status 204
LogoutRequest(handler) ==
    /\ \E credOK \in BOOLEAN, cred \in 0..MaxSessions, del \in CallResults :
          LET r == logout(credOK, cred, del)
          IN  /\ last' = [NoRequest EXCEPT
                             !.handler = handler,
                             !.cred = IF credOK THEN cred ELSE 0,
                             !.err = r.err,
                             !.deleted = r.deleted,
                             !.cookieUnset = (r.err = "nil" /\ r.ok)]
              /\ sessions' = IF r.deleted # 0 /\ del = "ok"
                             THEN sessions \ {r.deleted} ELSE sessions
              /\ cookie' = IF r.err = "nil" /\ r.ok THEN 0 ELSE cookie
    /\ UNCHANGED <<nextKey, cmdVars, escVars, archVars>>

Login == LoginRequest("Login", FALSE)
V3Login == LoginRequest("V3Login", TRUE)
Logout == LogoutRequest("Logout")
V3Logout == LogoutRequest("V3Logout")

NextServer ==
    \/ Login
    \/ V3Login
    \/ Logout
    \/ V3Logout

SpecServer == InitServer /\ [][NextServer]_vars

(***************************************************************************)
(* What the claims speak of.                                               *)
(***************************************************************************)
\* the occurrences of key in str, found from the left, each search resuming
\* at the end of the occurrence before: the ranges [lo, hi) of str whose
\* lower case is key
RECURSIVE Occurrences(_, _, _)
Occurrences(str, key, from) ==
    LET L == Len(key)
        hits == {i \in from..(Len(str) - L) : ToLower(Slice(str, i, i + L)) = key}
    IN  IF L = 0 \/ hits = {} THEN <<>>
        ELSE <<[lo |-> Min(hits), hi |-> Min(hits) + L]>>
                \o Occurrences(str, key, Min(hits) + L)

RowOccurrences == Occurrences(note.body, ToLower(args[1]), 0)

\* the number of occurrences of key in str as they stand, found from the left,
\* each search resuming at the end of the occurrence before
RECURSIVE Count(_, _, _)
Count(str, key, from) ==
    LET i == IF from <= Len(str) THEN indexAt(str, key, from) ELSE -1
    IN  IF key = <<>> \/ i = -1 THEN 0
        ELSE 1 + Count(str, key, i + Len(key))

\* the spans the loop highlighted, as ranges of the row's body
Spans == SelectSeq(segs, LAMBDA g : g.kind = "hl")

\* the loop is over and its result stands in body
LoopDone == pc = "format"

\* the terms of the input, each in double quotes, one space between two
QuotedTerms(str) ==
    LET terms == Fields(str)
    IN  Join([k \in 1..Len(terms) |-> <<"\"">> \o terms[k] \o <<"\"">>], <<" ">>)

\* C1: escapePhrase returns its terms, each wrapped in double quotes, in their
\* order, with exactly one space between two of them and none before the
\* first or after the last.
C1_QuotedAndJoined ==
    (esc_out.returned /\ Fields(esc_in) # <<>>)
        => esc_out.str = QuotedTerms(esc_in)

\* C10: on an input of no term (empty, or white space only) escapePhrase
\* returns the empty string and no error.
C10_NoTermsEmptyString ==
    (esc_out.returned /\ \A i \in 1..Len(esc_in) : IsSpace(esc_in[i]))
        => (esc_out.str = <<>> /\ esc_out.err = "nil")

\* C10's case: a non-empty input of white space only was escaped
C10_Witness ==
    /\ esc_out.returned
    /\ esc_in # <<>>
    /\ \A i \in 1..Len(esc_in) : IsSpace(esc_in[i])

\* C2: for a non-empty phrase whose lower case occurs k times in the lower
\* case of the body, the loop highlights exactly k spans, in increasing order
\* and without overlap, each of as many bytes of the body as the lower-case
\* phrase has.
C2_OccurrenceCoverage ==
    (LoopDone /\ phrase_lwr # <<>>)
        => /\ Len(Spans) = Count(ToLower(note.body), phrase_lwr, 0)
           /\ \A k \in 1..Len(Spans) :
                 /\ Spans[k].hi - Spans[k].lo = Len(phrase_lwr)
                 /\ 0 <= Spans[k].lo
                 /\ Spans[k].hi <= Len(note.body)
                 /\ k > 1 => Spans[k - 1].hi <= Spans[k].lo

\* C4: the loop ends for every body and every phrase: it makes no more passes
\* than the body has occurrences, it does not panic, and for the empty phrase
\* it highlights nothing.
C4_TerminatesTotal ==
    /\ pc # "panic"
    /\ pc \in {"loop", "format"} => iter <= Len(RowOccurrences)
    /\ (pc \in {"loop", "format"} /\ phrase_lwr = <<>>) => Spans = <<>>

\* C5, as claimed: with no occurrence the result is the first min(len(body),
\* 2c) bytes of the body.
C5_FirstTwoContexts ==
    (LoopDone /\ Index(ToLower(note.body), phrase_lwr) = -1)
        => LET n == IF Len(note.body) < 2 * c THEN Len(note.body) ELSE 2 * c
           IN  body = Slice(note.body, 0, n)

\* C5, amended: with no occurrence the result is the whole body, whatever its
\* length, with no marker added and no ellipsis.
C5_WholeBody ==
    (LoopDone /\ Index(ToLower(note.body), phrase_lwr) = -1)
        => /\ body = note.body
           /\ segs = <<Text(0, Len(note.body))>>

\* C5's case: a body longer than 2c without an occurrence went through the loop
C5_Witness ==
    /\ LoopDone
    /\ Index(ToLower(note.body), phrase_lwr) = -1
    /\ Len(note.body) > 2 * c

\* C6: with at least one occurrence, the text behind the last highlighted
\* span is body[lastEnd : windowEnd], windowEnd = min(lastEnd + c, len(body)),
\* lastEnd the end of the last occurrence, and an ellipsis follows it if and
\* only if windowEnd < len(body).
C6_TruncationCorrect ==
    (LoopDone /\ RowOccurrences # <<>>)
        => LET lastEnd == RowOccurrences[Len(RowOccurrences)].hi
               n == Len(note.body)
               windowEnd == IF lastEnd + c < n THEN lastEnd + c ELSE n
               tail == HLEnd \o Slice(note.body, lastEnd, windowEnd)
                          \o (IF windowEnd < n THEN Ellipsis ELSE <<>>)
           IN  /\ Len(body) >= Len(tail)
               /\ Slice(body, Len(body) - Len(tail), Len(body)) = tail
               /\ Spans # <<>>
               /\ Spans[Len(Spans)].hi = lastEnd

\* C9: a note of an archived book is among the results only if --all was given.
C9_ArchivedOnlyWithAll ==
    \A k \in 1..Len(infos) : infos[k].Archive => all

\* the markers of str, in their order: "b" for a begin marker, "e" for an end
\* marker
MarkerSeq(str) ==
    Concat([i \in 1..Len(str) |->
              IF At(str, i - 1, HLBegin) THEN <<"b">>
              ELSE IF At(str, i - 1, HLEnd) THEN <<"e">>
              ELSE <<>>])

\* as many begin as end markers, no end marker before its begin marker, none
\* nested: begin and end markers alternate
Balanced(str) ==
    LET ms == MarkerSeq(str)
    IN  /\ Len(ms) % 2 = 0
        /\ \A k \in 1..Len(ms) : ms[k] = (IF k % 2 = 1 THEN "b" ELSE "e")

HasMarker(str) == MarkerSeq(str) # <<>>

\* C3, as claimed: for any body the markers of the text are balanced and not
\* nested after every pass of the loop.
C3_BalancedAnyBody ==
    pc \in {"loop", "format"} => Balanced(body)

\* C3, amended: for a body that holds no marker text of its own, the markers
\* of the text are balanced and not nested after every pass of the loop.
C3_BalancedMarkerFreeBody ==
    (pc \in {"loop", "format", "panic"} /\ ~HasMarker(note.body))
        => Balanced(body)

\* C3's case: the loop has put a span and an ellipsis into a body that held no
\* marker, and is not yet over
C3_Witness ==
    /\ pc = "loop"
    /\ ~HasMarker(note.body)
    /\ \E k \in 1..Len(segs) : segs[k].kind = "ellipsis" /\ segs[k].hi > segs[k].lo
    /\ Len(MarkerSeq(body)) >= 4

\* the text that segments stand for: the slices of the row's body, the
\* highlighted ones between markers, and an ellipsis for an omitted range
Render(gs) ==
    Concat([k \in 1..Len(gs) |->
              IF gs[k].kind = "text" THEN Slice(note.body, gs[k].lo, gs[k].hi)
              ELSE IF gs[k].kind = "hl"
              THEN HLBegin \o Slice(note.body, gs[k].lo, gs[k].hi) \o HLEnd
              ELSE Ellipsis])

\* segments that cover [0, n) from the left, each starting where the one
\* before ends
Tiles(gs, n) ==
    /\ gs # <<>>
    /\ gs[1].lo = 0
    /\ gs[Len(gs)].hi = n
    /\ \A k \in 1..Len(gs) :
          /\ gs[k].lo <= gs[k].hi
          /\ k > 1 => gs[k].lo = gs[k - 1].hi

\* str without its ellipsis markers and its begin and end markers
Strip(str) ==
    LET inMark(i) ==
            \E j \in 0..21 :
               \/ At(str, i - j, Ellipsis)
               \/ j <= 8 /\ At(str, i - j, HLBegin)
               \/ j <= 9 /\ At(str, i - j, HLEnd)
    IN  Concat([i \in 1..Len(str) |-> IF inMark(i - 1) THEN <<>> ELSE <<str[i]>>])

\* C7, as claimed: the result of the loop without its markers and ellipses is
\* a contiguous part of the body with its new lines replaced (for a body that
\* holds no marker text of its own).
C7_ContiguousPart ==
    (LoopDone /\ ~HasMarker(note.body))
        => Index(StripNewLines(note.body), Strip(StripNewLines(body))) > -1

\* C7, amended: the result of the loop is, in the body's order, the slices of
\* the body outside the ranges the loop omitted, with an ellipsis for each
\* omitted range and markers around each highlighted slice: without what the
\* loop inserted it is a subsequence of the body, no byte duplicated,
\* reordered or altered, and contiguous where no ellipsis stands.
C7_SlicesInOrder ==
    LoopDone
        => /\ body = Render(segs)
           /\ Tiles(segs, Len(note.body))

\* C7's case: the loop left out a range between two occurrences
C7_Witness ==
    /\ LoopDone
    /\ \E k \in 2..(Len(segs) - 1) :
          /\ segs[k].kind = "ellipsis"
          /\ segs[k].hi > segs[k].lo
          /\ segs[k].lo > 0
          /\ segs[k].hi < Len(note.body)

\* the text a marked-up text is displayed as: what stands between a begin
\* marker and the next end marker in yellow, the rest as it is
RECURSIVE Display(_)
Display(str) ==
    LET i == Index(str, HLBegin)
        rest == Slice(str, i + 9, Len(str))
        j == Index(rest, HLEnd)
    IN  IF i = -1 \/ j = -1 THEN str
        ELSE Slice(str, 0, i) \o ColorYellow(Slice(rest, 0, j))
                \o Display(Slice(rest, j + 10, Len(rest)))

\* the row at hand has been formatted
Formatted == pc = "rows" /\ infos # <<>>

\* C8, as claimed: of a text of balanced markers formatFTSSnippet returns the
\* literal runs as they are and the runs between markers highlighted, in
\* their order, dropping no byte.
C8_DisplayVerbatim ==
    (Formatted /\ Balanced(body))
        => infos[Len(infos)].Body = Display(body)

\* C8, amended: of a text of balanced markers formatFTSSnippet returns, in
\* their order, the literal runs and the highlighted runs between markers of
\* the text whose new lines (\n, \r\n) are each replaced by one space; beyond
\* that no byte is dropped or altered, and a per cent sign stays as it is.
C8_DisplayOfNewLineFree ==
    (Formatted /\ Balanced(body))
        => infos[Len(infos)].Body = Display(StripNewLines(body))

\* C8's case: a text with a highlighted span, text behind its last marker
\* and a new line was formatted
C8_Witness ==
    /\ Formatted
    /\ Balanced(body)
    /\ HasMarker(body)
    /\ body[Len(body)] = "x"
    /\ \E i \in 1..Len(body) : body[i] = "\n"

\* the indices in segs of the highlighted spans, and whether m is the span
\* next to k
HlIdx == {k \in 1..Len(segs) : segs[k].kind = "hl"}
NextHl(k, m) ==
    /\ k \in HlIdx
    /\ m \in HlIdx
    /\ m > k
    /\ \A j \in (k + 1)..(m - 1) : j \notin HlIdx
\* what the loop made of the text between the spans k and m
Between(k, m) == SubSeq(segs, k + 1, m - 1)
Gap(k, m) == segs[m].lo - segs[k].hi

\* C11, as claimed: of two consecutive occurrences no more than c bytes apart
\* the text between is kept in full, with no ellipsis; of two more than c
\* bytes apart an ellipsis stands between.
C11_MergeWithinC ==
    LoopDone
        => \A k, m \in HlIdx :
              NextHl(k, m)
                 => IF Gap(k, m) <= c
                    THEN Between(k, m) = <<Text(segs[k].hi, segs[m].lo)>>
                    ELSE \E j \in (k + 1)..(m - 1) : segs[j].kind = "ellipsis"

\* C11, amended: of two consecutive highlighted spans no more than 2c bytes
\* apart the text between is kept in full, with no ellipsis; of two more than
\* 2c bytes apart the c bytes behind the first and the c bytes before the
\* second are kept, and one ellipsis stands for the bytes between.
C11_MergeWithinTwoC ==
    LoopDone
        => /\ body = Render(segs)
           /\ \A k, m \in HlIdx :
                 NextHl(k, m)
                    => Between(k, m) =
                          IF Gap(k, m) <= 2 * c
                          THEN <<Text(segs[k].hi, segs[m].lo)>>
                          ELSE <<Text(segs[k].hi, segs[k].hi + c),
                                 Omit(segs[k].hi + c, segs[m].lo - c),
                                 Text(segs[m].lo - c, segs[m].lo)>>

\* C11's case: two spans more than c and no more than 2c bytes apart
C11_Witness ==
    /\ LoopDone
    /\ phrase_lwr # <<>>
    /\ \E k, m \in HlIdx :
          NextHl(k, m) /\ Gap(k, m) > c /\ Gap(k, m) <= 2 * c

\* the first highlighted span, and what the loop made of the text before it
FirstHl == Min(HlIdx)
Leading == SubSeq(segs, 1, FirstHl - 1)

\* C12, as claimed: no ellipsis stands before the first occurrence of a body,
\* whatever its offset.
C12_NoLeadingEllipsis ==
    (LoopDone /\ HlIdx # {})
        => \A j \in 1..(FirstHl - 1) : segs[j].kind # "ellipsis"

\* C12, amended: an ellipsis stands before the first highlighted span if and
\* only if the span starts more than c bytes into the body; it is then the
\* first thing of the output and stands for the bytes body[0 : start-c], and
\* the c bytes before the span follow it.
C12_LeadingEllipsisBeyondC ==
    (LoopDone /\ HlIdx # {})
        => /\ Leading = IF segs[FirstHl].lo > c
                        THEN <<Text(0, 0), Omit(0, segs[FirstHl].lo - c),
                               Text(segs[FirstHl].lo - c, segs[FirstHl].lo)>>
                        ELSE <<Text(0, segs[FirstHl].lo)>>
           /\ HasPrefix(body, Render(SubSeq(segs, 1, FirstHl)))

\* C12's case: the first span of a body starts more than c bytes into it
C12_Witness ==
    /\ LoopDone
    /\ HlIdx # {}
    /\ segs[FirstHl].lo > c

\* the offsets of the row's body that the output keeps
KeptPos ==
    UNION {segs[k].lo..(segs[k].hi - 1) :
             k \in {j \in 1..Len(segs) : segs[j].kind # "ellipsis"}}
\* the offsets of str that lie in an occurrence of occs or within c bytes
\* before its start or behind its end
Windows(occs, str) ==
    UNION {(occs[k].lo - c)..(occs[k].hi + c - 1) : k \in 1..Len(occs)}
       \cap (0..(Len(str) - 1))

\* C13: of a body with an occurrence, a byte outside the occurrences is in
\* the output if and only if it lies within c bytes of an occurrence (and the
\* bytes of the occurrences are in the output); every maximal run of omitted
\* bytes is replaced by exactly one ellipsis, and an ellipsis stands only
\* where a byte was omitted.
C13_WindowCoverage ==
    LoopDone
        => LET occs == RowOccurrences
           IN  occs # <<>>
                 => /\ KeptPos = Windows(occs, note.body)
                    /\ Tiles(segs, Len(note.body))
                    /\ \A k \in 1..Len(segs) :
                          segs[k].kind = "ellipsis"
                             => /\ segs[k].hi > segs[k].lo
                                /\ k < Len(segs)
                                      => segs[k + 1].kind # "ellipsis"

\* the snippet of the row that was formatted last
LastSnippet == infos[Len(infos)].Body
HasCRLF(str) == \E i \in 1..(Len(str) - 1) : str[i] = "\r" /\ str[i + 1] = "\n"

\* C14, as claimed: the new lines of the body are replaced before the
\* occurrences are located: the snippet of a body is the snippet of its copy
\* whose new lines are replaced.
C14_NormalizedFirst ==
    Formatted => LastSnippet = Snippet(StripNewLines(note.body), phrase_lwr)

\* C14, amended: the new lines are replaced behind the loop: the snippet of a
\* body is what formatFTSSnippet makes of the loop's output for the body as
\* it is, so that a \r\n counts two bytes in the offsets and the windows; it
\* is the snippet of the copy whose new lines are replaced if the body holds
\* no \r\n and the phrase neither a space nor a new line.
C14_NormalizedBehindLoop ==
    Formatted
        => /\ LastSnippet = Snippet(note.body, phrase_lwr)
           /\ (/\ ~HasCRLF(note.body)
               /\ \A i \in 1..Len(phrase_lwr) : phrase_lwr[i] \notin {" ", "\n"})
                 => LET copy == StripNewLines(note.body)
                    IN  copy # note.body
                           => LastSnippet = Snippet(copy, phrase_lwr)

\* C14's case: a body with a new line and no \r\n, in which the loop
\* highlighted a span, was formatted
C14_Witness ==
    /\ Formatted
    /\ ~HasCRLF(note.body)
    /\ \E i \in 1..Len(note.body) : note.body[i] = "\n"
    /\ HlIdx # {}
    /\ LastSnippet # note.body

\* C15: for a non-empty phrase every occurrence the loop uses is a range of
\* the body whose lower case is the lower-case phrase, every slice of the
\* loop is within bounds and the loop does not panic.
C15_OffsetsOfBody ==
    (pc \in {"loop", "format", "panic"} /\ phrase_lwr # <<>>)
        => /\ pc # "panic"
           /\ \A k \in HlIdx :
                 /\ 0 <= segs[k].lo
                 /\ segs[k].lo <= segs[k].hi
                 /\ segs[k].hi <= Len(note.body)
                 /\ ToLower(Slice(note.body, segs[k].lo, segs[k].hi)) = phrase_lwr

\* C16: when the archive command has returned, the transaction it began is
\* committed or rolled back, none is left open; and if it returned an error
\* the archive flags of the books are as they were.
C16_TransactionClosed ==
    a_pc = "returned"
        => /\ tx # "open"
           /\ a_err # "nil" => books = books0

\* C17: a login request creates a session and sets the cookie or answers
\* with the session only if Authenticate and SignIn both succeeded for a
\* non-empty email and password; with an empty email or password it does not
\* call Authenticate and reports ErrEmailRequired or ErrPasswordRequired; it
\* reports an unknown user as ErrLoginInvalid; on an error it sets no cookie;
\* a logout request deletes a session and unsets the cookie only if it
\* carries a non-empty credential; and the cookie of the client is the key
\* of a session that was created.
C17_LoginSessionSafety ==
    /\ last.handler \in {"Login", "V3Login"}
          => /\ (last.created # 0 \/ last.cookieSet # 0 \/ last.issued # 0)
                   => /\ last.email # ""
                      /\ last.password # ""
                      /\ last.auth = "ok"
                      /\ last.signIn = "ok"
                      /\ last.err = "nil"
             /\ last.signIn # "none" => last.auth = "ok"
             /\ (last.parsed /\ last.email = "")
                   => last.err = "ErrEmailRequired" /\ last.auth = "none"
             /\ (last.parsed /\ last.email # "" /\ last.password = "")
                   => last.err = "ErrPasswordRequired" /\ last.auth = "none"
             /\ last.auth = "ErrNotFound" => last.err = "ErrLoginInvalid"
             /\ last.err # "nil" => last.cookieSet = 0 /\ last.issued = 0
             /\ ~last.cookieUnset /\ last.deleted = 0
    /\ last.handler \in {"Logout", "V3Logout"}
          => /\ (last.deleted # 0 \/ last.cookieUnset) => last.cred # 0
             /\ last.cookieUnset => (last.deleted # 0 /\ last.err = "nil")
             /\ last.created = 0 /\ last.cookieSet = 0 /\ last.issued = 0
    /\ sessions \subseteq 1..(nextKey - 1)
    /\ cookie # 0 => cookie \in 1..(nextKey - 1)

\* C17's case: after a login that set the cookie, a logout with the session's
\* key deleted the session and unset the cookie
C17_Witness ==
    /\ last.handler = "Logout"
    /\ last.cookieUnset
    /\ last.deleted # 0
    /\ last.deleted \notin sessions
    /\ cookie = 0
    /\ nextKey > 1

====
